---- MODULE Spec2Model ----
(***************************************************************************)
(* A model of ExifPhotoSorter.py: the Geolocator (proximity cache in front *)
(* of a rate-limited reverse-geocoding backend), the PhotoProcessor        *)
(* pipeline (process_photos and the helpers it calls) and the part of the  *)
(* GUI that drives the pipeline (process_photos_async).                    *)
(*                                                                         *)
(* Conventions.                                                            *)
(*  - Optional[T] is a sequence of length 0 (None) or 1 (<<value>>).       *)
(*  - A Python str is a sequence of tokens; the token ", " (SEP) is the    *)
(*    only separator that the code splits and joins on, so split and join  *)
(*    are computed on token sequences.  The empty str is <<>>.             *)
(*  - A float coordinate is an integer number of 1e-4 degrees.             *)
(*  - A directory path is a sequence of path components (each a str).      *)
(***************************************************************************)
EXTENDS Integers, Sequences, FiniteSets, TLC

VARIABLES
    config,            \* the ConfigParser values the core reads
    location_cache,    \* Geolocator.location_cache: insertion-ordered dict, as a sequence of [key, name]
    cache_file,        \* content of location_cache.json (a missing file has no entries)
    backend_calls,     \* number of calls made to Geolocator.reverse (the rate-limited gateway)
    geocode_calls,     \* one record per Geolocator.reverse_geocode call made so far
    in_flight,         \* calls of Geolocator.reverse that have started and not returned
    saving,            \* Optional: what the file held when the _save_cache in progress opened it
    photo_paths,       \* argument of process_photos
    idx,               \* position of the for loop in photo_paths
    pc,                \* where process_photos / process_photos_async stands
    processed_photos,  \* local counters of process_photos
    sortable_photos,
    unsortable_photos,
    cur,               \* locals of the loop body for the current photo
    events,            \* the tuples process_photos has yielded
    source_files,      \* photo paths that exist in the input directories
    dest_files,        \* files under the output directory: [dir, name, content, complete]
    dirs,              \* directories created under (and including) the output directory
    summary            \* Optional: what show_completion_message displayed

vars == <<config, location_cache, cache_file, backend_calls, geocode_calls, in_flight, saving,
          photo_paths, idx, pc, processed_photos, sortable_photos,
          unsortable_photos, cur, events, source_files, dest_files, dirs, summary>>

geo_vars == <<location_cache, cache_file, backend_calls, geocode_calls, in_flight, saving>>
fs_vars == <<source_files, dest_files, dirs>>
count_vars == <<processed_photos, sortable_photos, unsortable_photos>>

(***************************************************************************)
(* Optional values and strings                                             *)
(***************************************************************************)
None == <<>>
Some(x) == <<x>>
IsNone(o) == Len(o) = 0
Val(o) == o[1]

SEP == ", "

Str(tok) == <<tok>>

\* sep.join(parts): parts is a sequence of strs
RECURSIVE join(_, _)
join(sep, parts) ==
    IF Len(parts) = 0 THEN <<>>
    ELSE IF Len(parts) = 1 THEN parts[1]
    ELSE parts[1] \o <<sep>> \o join(sep, Tail(parts))

\* s.split(sep): always at least one part; "".split(sep) = [""]
RECURSIVE split(_, _)
split(s, sep) ==
    IF \A i \in 1..Len(s) : s[i] # sep THEN <<s>>
    ELSE LET k == CHOOSE i \in 1..Len(s) : s[i] = sep /\ \A j \in 1..(i-1) : s[j] # sep
         IN  <<SubSeq(s, 1, k-1)>> \o split(SubSeq(s, k+1, Len(s)), sep)

\* reversed(seq)
reversed(s) == [i \in 1..Len(s) |-> s[Len(s) + 1 - i]]

\* filter(None, parts): drops None and empty strs from a sequence of Optional strs
RECURSIVE filter_none(_)
filter_none(parts) ==
    IF Len(parts) = 0 THEN <<>>
    ELSE IF IsNone(parts[1]) \/ Len(Val(parts[1])) = 0 THEN filter_none(Tail(parts))
    ELSE <<Val(parts[1])>> \o filter_none(Tail(parts))

\* a or b, on Optional strs (None and "" are falsy)
Falsy(o) == IsNone(o) \/ Len(Val(o)) = 0
or_else(a, b) == IF Falsy(a) THEN b ELSE a

(***************************************************************************)
(* Coordinates, dates and the reverse-geocoding backend's answers          *)
(***************************************************************************)
\* decimal degrees in units of 1e-4 degree
NewYork == [lat |-> 407128, lon |-> -740060]      \* (40.7128, -74.0060)
NearNewYork == [lat |-> 407178, lon |-> -740060]  \* about 0.55 km north of NewYork
Chicago == [lat |-> 418781, lon |-> -876298]
NullIsland == [lat |-> 0, lon |-> 0]              \* the placeholder tag (0.0, 0.0)
London == [lat |-> 515074, lon |-> -1278]         \* a real place outside the box

CoordNumbers == {c.lat : c \in {NewYork, NearNewYork, Chicago, NullIsland, London}}
                \cup {c.lon : c \in {NewYork, NearNewYork, Chicago, NullIsland, London}}

March15 == [year |-> 2024, month |-> 3, day |-> 15]

\* raw['address'] of a geopy Location; every field is an Optional str
Address(city, town, village, state, county, country) ==
    [city |-> city, town |-> town, village |-> village,
     state |-> state, county |-> county, country |-> country]

NewYorkAddress ==
    Address(Some(Str("New York")), None, None, Some(Str("New York")), None, Some(Str("United States")))
TownAddress ==
    Address(None, Some(Str("Evanston")), None, None, Some(Str("Cook County")), Some(Str("United States")))
CountryAddress ==
    Address(None, None, None, None, None, Some(Str("United States")))
EmptyAddress ==
    Address(None, None, None, None, None, None)
\* a locality and a country, no state and no county
CityCountryAddress ==
    Address(Some(Str("Nassau")), None, None, None, None, Some(Str("The Bahamas")))
QuebecAddress ==
    Address(Some(Str("Que'bec")), None, None, Some(Str("Que'bec")), None, Some(Str("Canada")))

\* what one call of self.reverse(...) can do: raise, or return None or a Location
Raises == [raises |-> TRUE, location |-> None]
NoResult == [raises |-> FALSE, location |-> None]
Found(address) == [raises |-> FALSE, location |-> Some(address)]

(***************************************************************************)
(* Geolocator                                                              *)
(***************************************************************************)
\* f"{latitude}, {longitude}"
format_key(latitude, longitude) == <<ToString(latitude), SEP, ToString(longitude)>>

\* float(s) on the text of one number
float(s) == CHOOSE n \in CoordNumbers : Str(ToString(n)) = s

\* tuple(map(float, cached_location.split(', ')))
parse_key(cached_location) ==
    LET parts == split(cached_location, SEP)
    IN  [lat |-> float(parts[1]), lon |-> float(parts[2])]

Abs(n) == IF n < 0 THEN -n ELSE n

\* geopy's geodesic(p, q), in metres: 1e-4 degree of latitude is about 11 m and
\* of longitude about 8 m at these latitudes; the taxicab norm keeps it integral.
geodesic(p, q) == 11 * Abs(p.lat - q.lat) + 8 * Abs(p.lon - q.lon)

\* faulty variant: the comparison with the threshold is strict
_is_cached_location_nearby_strict(latitude, longitude) ==
    LET near == {i \in 1..Len(location_cache) :
                    geodesic([lat |-> latitude, lon |-> longitude],
                             parse_key(location_cache[i].key))
                        < config.cache_distance_threshold}
    IN  IF near = {} THEN None
        ELSE Some(location_cache[CHOOSE i \in near : \A j \in near : i <= j].name)

\* Geolocator._is_cached_location_nearby: the first entry, in dict order, within
\* the threshold (in metres); None when there is none.
_is_cached_location_nearby(latitude, longitude) ==
    LET near == {i \in 1..Len(location_cache) :
                    geodesic([lat |-> latitude, lon |-> longitude],
                             parse_key(location_cache[i].key))
                        <= config.cache_distance_threshold}
    IN  IF near = {} THEN None
        ELSE Some(location_cache[CHOOSE i \in near : \A j \in near : i <= j].name)

\* Geolocator._parse_location
_parse_location(location) ==
    IF IsNone(location) THEN None
    ELSE LET address == Val(location)
             city == or_else(or_else(address.city, address.town), address.village)
             state == or_else(address.state, address.county)
             country == address.country
         IN  Some(join(SEP, filter_none(<<city, state, country>>)))

\* faulty variant: the assignment is lost
dict_set_lost(cache, key, name) == cache

\* self.location_cache[key] = name: an existing key keeps its position
dict_set(cache, key, name) ==
    IF \E i \in 1..Len(cache) : cache[i].key = key
    THEN [i \in 1..Len(cache) |->
            IF cache[i].key = key THEN [key |-> key, name |-> name] ELSE cache[i]]
    ELSE Append(cache, [key |-> key, name |-> name])

\* faulty variant: the file is left as it is
_save_cache_skipped(cache) == cache_file

\* faulty variant: the file is opened for writing and nothing is dumped
_save_cache_emptied(cache) == <<>>

\* Geolocator._save_cache: the file is rewritten with the whole dict
_save_cache(cache) == cache

\* Geolocator.reverse_geocode(latitude, longitude), `response` being what the
\* backend does if it is called.  Gives the returned Optional str, the cache and
\* the file after the call, and the number of backend calls made.
reverse_geocode(latitude, longitude, response) ==
    LET caching == config.cache_geocoding_results
        cached_location == IF caching THEN _is_cached_location_nearby(latitude, longitude)
                           ELSE None
        location_str == IF response.raises THEN None ELSE _parse_location(response.location)
        store == ~Falsy(location_str) /\ caching
        new_cache == IF store
                     THEN dict_set(location_cache, format_key(latitude, longitude), Val(location_str))
                     ELSE location_cache
    IN  IF ~Falsy(cached_location)
        THEN [result |-> cached_location, cache |-> location_cache,
              file |-> cache_file, calls |-> 0]
        ELSE [result |-> location_str, cache |-> new_cache,
              file |-> IF store THEN _save_cache(new_cache) ELSE cache_file,
              calls |-> 1]

\* lines 382-390 alone: what reverse_geocode does from the backend's response
\* on, the cache lookup having missed before the call started
reverse_geocode_after_miss(latitude, longitude, response) ==
    LET location_str == IF response.raises THEN None ELSE _parse_location(response.location)
        store == ~Falsy(location_str) /\ config.cache_geocoding_results
        new_cache == IF store
                     THEN dict_set(location_cache, format_key(latitude, longitude), Val(location_str))
                     ELSE location_cache
    IN  [result |-> location_str, cache |-> new_cache,
         file |-> IF store THEN _save_cache(new_cache) ELSE cache_file,
         calls |-> 1]

(***************************************************************************)
(* PhotoProcessor: pure helpers                                            *)
(***************************************************************************)
\* a call that can raise: either raised, or a value
Raise == [raised |-> TRUE, value |-> None]
Return(v) == [raised |-> FALSE, value |-> v]

\* unidecode(city): transliteration to ASCII, token by token; "Que'bec" stands
\* for the name written with its accented letter
transliterate(tok) == IF tok = "Que'bec" THEN "Quebec" ELSE tok
unidecode(s) == [i \in 1..Len(s) |-> transliterate(s[i])]

\* faulty variant: the bounding box is not checked
_validate_gps_coordinates_no_box(latitude, longitude) ==
    IF IsNone(latitude) \/ IsNone(longitude) THEN FALSE ELSE TRUE

\* PhotoProcessor._validate_gps_coordinates, on Optional numbers
_validate_gps_coordinates(latitude, longitude) ==
    IF IsNone(latitude) \/ IsNone(longitude) THEN FALSE
    ELSE IF ~(240000 <= Val(latitude) /\ Val(latitude) <= 490000
              /\ -1250000 <= Val(longitude) /\ Val(longitude) <= -660000) THEN FALSE
    ELSE TRUE

\* PhotoProcessor._reverse_geocode, given what Geolocator.reverse_geocode returned
_reverse_geocode(city) == IF Falsy(city) THEN city ELSE Some(unidecode(Val(city)))

\* faulty variant: the full hierarchy is not reversed
_apply_location_filters_unreversed(city_rgeo) ==
    IF IsNone(city_rgeo) THEN Raise
    ELSE LET location_parts == split(Val(city_rgeo), SEP)
             n == Len(location_parts)
         IN  IF config.group_by_country THEN Return(location_parts[n])
             ELSE IF config.group_by_state
                  THEN Return(join(SEP, SubSeq(location_parts, IF n >= 2 THEN n - 1 ELSE 1, n)))
             ELSE Return(join(SEP, location_parts))

\* PhotoProcessor._apply_location_filters; None.split raises AttributeError
_apply_location_filters(city_rgeo) ==
    IF IsNone(city_rgeo) THEN Raise
    ELSE LET location_parts == split(Val(city_rgeo), SEP)
             n == Len(location_parts)
         IN  IF config.group_by_country THEN Return(location_parts[n])
             ELSE IF config.group_by_state
                  THEN Return(join(SEP, SubSeq(location_parts, IF n >= 2 THEN n - 1 ELSE 1, n)))
             ELSE IF config.group_by_city THEN Return(join(SEP, reversed(location_parts)))
             ELSE Return(join(SEP, reversed(location_parts)))

\* datetime.strftime(date_format), the format being a sequence of directives and literals
pad2(n) == IF n < 10 THEN "0" \o ToString(n) ELSE ToString(n)
strftime(date, date_format) ==
    [i \in 1..Len(date_format) |->
        IF date_format[i] = "%Y" THEN ToString(date.year)
        ELSE IF date_format[i] = "%m" THEN pad2(date.month)
        ELSE IF date_format[i] = "%d" THEN pad2(date.day)
        ELSE date_format[i]]

output_directory == <<Str("output")>>

\* faulty variant: the date directory is always put under the place name
_create_output_path_date_under_city(city, photo_date) ==
    IF config.sort_by_date /\ ~IsNone(photo_date)
    THEN output_directory \o <<city, strftime(Val(photo_date), config.date_format)>>
    ELSE IF config.sort_by_location THEN output_directory \o <<city>>
         ELSE output_directory

\* the directory PhotoProcessor._create_output_path makes (os.path.join)
_create_output_path(city, photo_date) ==
    IF config.sort_by_date /\ ~IsNone(photo_date)
    THEN LET date_dir == strftime(Val(photo_date), config.date_format)
         IN  IF config.sort_by_location THEN output_directory \o <<city, date_dir>>
             ELSE output_directory \o <<date_dir>>
    ELSE IF config.sort_by_location THEN output_directory \o <<city>>
         ELSE output_directory

\* faulty variant: the date subdirectory is left out
_create_unsortable_path_undated(photo_date) ==
    output_directory \o <<config.unsortable_folder>>

\* the directory PhotoProcessor._create_unsortable_path makes
_create_unsortable_path(photo_date) ==
    LET unsortable_dir == output_directory \o <<config.unsortable_folder>>
    IN  IF config.sort_by_date /\ ~IsNone(photo_date)
        THEN unsortable_dir \o <<strftime(Val(photo_date), config.date_format)>>
        ELSE unsortable_dir

\* os.path.exists(os.path.join(dir, name))
exists(dir, name) == \E f \in dest_files : f.dir = dir /\ f.name = name

\* os.path.splitext on a file name whose last token is its extension
ExtTokens == {".jpg"}
splitext(photo_name) ==
    IF Len(photo_name) > 1 /\ photo_name[Len(photo_name)] \in ExtTokens
    THEN [base |-> SubSeq(photo_name, 1, Len(photo_name) - 1), ext |-> <<photo_name[Len(photo_name)]>>]
    ELSE [base |-> photo_name, ext |-> <<>>]

\* f"{base}{duplicate_suffix}{i}{ext}"
duplicate_name(base, i, ext) == base \o <<config.duplicate_suffix, ToString(i)>> \o ext

\* faulty variant: one more than the number of suffixed siblings
first_free_suffix_count(dir, base, ext) ==
    1 + Cardinality({i \in 1..(Cardinality(dest_files) + 1) :
                        exists(dir, duplicate_name(base, i, ext))})

\* the while loop of _copy_photo / _move_photo: the first i >= 1 whose name is free
first_free_suffix(dir, base, ext) ==
    CHOOSE i \in 1..(Cardinality(dest_files) + 1) :
        /\ ~exists(dir, duplicate_name(base, i, ext))
        /\ \A j \in 1..(i - 1) : exists(dir, duplicate_name(base, j, ext))

\* faulty variant: skip_duplicates is not consulted
resolve_destination_no_skip(photo_path, output_path) ==
    LET photo_name == photo_path.name
        parts == splitext(photo_name)
    IN  IF exists(output_path, photo_name)
        THEN Some(duplicate_name(parts.base, first_free_suffix(output_path, parts.base, parts.ext), parts.ext))
        ELSE Some(photo_name)

\* faulty variant: the photo always takes its own name
resolve_destination_overwrite(photo_path, output_path) == Some(photo_path.name)

\* lines 643-657 (and 678-692): the file name the photo gets in output_path, or
\* None when the duplicate is skipped
resolve_destination(photo_path, output_path) ==
    LET photo_name == photo_path.name
        parts == splitext(photo_name)
    IN  IF config.skip_duplicates /\ exists(output_path, photo_name) THEN None
        ELSE IF exists(output_path, photo_name)
             THEN Some(duplicate_name(parts.base, first_free_suffix(output_path, parts.base, parts.ext), parts.ext))
        ELSE Some(photo_name)

(***************************************************************************)
(* PhotoProcessor: file placement                                          *)
(***************************************************************************)
\* what the file system holds after a file is written at dir/name
write_file(dir, name, content, complete) ==
    {f \in dest_files : ~(f.dir = dir /\ f.name = name)}
        \cup {[dir |-> dir, name |-> name, content |-> content, complete |-> complete]}

\* what shutil.copy2 / shutil.move can do
TransferOutcomes == {"ok", "fail", "partial"}

Placement(files, sources, result, op) ==
    [files |-> files, sources |-> sources, result |-> result, op |-> op]

\* PhotoProcessor._copy_photo: the final path, or None (skipped, or the copy failed)
_copy_photo(photo_path, output_path, outcome) ==
    LET name == resolve_destination(photo_path, output_path)
    IN  IF IsNone(name) THEN Placement(dest_files, source_files, None, "skipped")
        ELSE IF outcome = "ok" /\ photo_path \in source_files
             THEN Placement(write_file(output_path, Val(name), photo_path, TRUE), source_files,
                            Some([dir |-> output_path, name |-> Val(name)]), "copied")
        ELSE IF outcome = "partial" /\ photo_path \in source_files
             THEN Placement(write_file(output_path, Val(name), photo_path, FALSE), source_files,
                            None, "failed")
        ELSE Placement(dest_files, source_files, None, "failed")

\* faulty variant: the source is gone after a move that failed
_move_photo_unlinks_first(photo_path, output_path, outcome) ==
    LET name == resolve_destination(photo_path, output_path)
    IN  IF IsNone(name) THEN Placement(dest_files, source_files, None, "skipped")
        ELSE IF outcome = "ok" /\ photo_path \in source_files
             THEN Placement(write_file(output_path, Val(name), photo_path, TRUE),
                            source_files \ {photo_path},
                            Some([dir |-> output_path, name |-> Val(name)]), "moved")
        ELSE Placement(dest_files, source_files \ {photo_path}, None, "failed")

\* PhotoProcessor._move_photo
_move_photo(photo_path, output_path, outcome) ==
    LET name == resolve_destination(photo_path, output_path)
    IN  IF IsNone(name) THEN Placement(dest_files, source_files, None, "skipped")
        ELSE IF outcome = "ok" /\ photo_path \in source_files
             THEN Placement(write_file(output_path, Val(name), photo_path, TRUE),
                            source_files \ {photo_path},
                            Some([dir |-> output_path, name |-> Val(name)]), "moved")
        ELSE IF outcome = "partial" /\ photo_path \in source_files
             THEN Placement(write_file(output_path, Val(name), photo_path, FALSE), source_files,
                            None, "failed")
        ELSE Placement(dest_files, source_files, None, "failed")

(***************************************************************************)
(* PhotoProcessor.process_photos, one action per stage of the loop body    *)
(***************************************************************************)
NoCur ==
    [photo_path |-> None, latitude |-> None, longitude |-> None, photo_date |-> None,
     valid |-> FALSE, city_rgeo |-> None, city |-> None, output_path |-> None,
     is_sortable |-> FALSE, destination_path |-> None, op |-> "none", stages |-> <<>>,
     geocoded |-> FALSE, calls |-> 0, files_before |-> {}]

\* the tuple process_photos yields
ProgressInfo(processed, sortable, unsortable, photo_path) ==
    [processed |-> processed, total |-> Len(photo_paths), sortable |-> sortable,
     unsortable |-> unsortable, photo_path |-> photo_path]

\* what reading a photo's EXIF can give: no Image at all, or GPS and date tags
NoExif == [ok |-> FALSE, gps |-> None, date |-> None]
Exif(gps, date) == [ok |-> TRUE, gps |-> gps, date |-> date]

\* faulty variant: the exception leaves the loop
ExceptBranch_aborts(c) ==
    /\ unsortable_photos' = unsortable_photos + 1
    /\ events' = Append(events, ProgressInfo(processed_photos, sortable_photos,
                                             unsortable_photos + 1, Val(c.photo_path)))
    /\ cur' = [c EXCEPT !.op = "exception"]
    /\ pc' = "done"
    /\ UNCHANGED <<processed_photos, sortable_photos>>

\* faulty variant: the exception is yielded and not counted
ExceptBranch_uncounted(c) ==
    /\ events' = Append(events, ProgressInfo(processed_photos, sortable_photos,
                                             unsortable_photos, Val(c.photo_path)))
    /\ cur' = [c EXCEPT !.op = "exception"]
    /\ pc' = "yield"
    /\ UNCHANGED <<processed_photos, sortable_photos, unsortable_photos>>

\* faulty variant: the exception is counted and nothing is yielded
ExceptBranch_silent(c) ==
    /\ unsortable_photos' = unsortable_photos + 1
    /\ events' = events
    /\ cur' = [c EXCEPT !.op = "exception"]
    /\ pc' = "yield"
    /\ UNCHANGED <<processed_photos, sortable_photos>>

\* lines 463-466: the except branch of the loop body
ExceptBranch(c) ==
    /\ unsortable_photos' = unsortable_photos + 1
    /\ events' = Append(events, ProgressInfo(processed_photos, sortable_photos,
                                             unsortable_photos + 1, Val(c.photo_path)))
    /\ cur' = [c EXCEPT !.op = "exception"]
    /\ pc' = "yield"
    /\ UNCHANGED <<processed_photos, sortable_photos>>

\* faulty variant: a photo without metadata is carried on as one without GPS tags
Extract_no_exif_carried_on(exifs) ==
    /\ pc = "loop"
    /\ idx <= Len(photo_paths)
    /\ \E e \in exifs :
         LET photo_path == photo_paths[idx]
             exif == IF photo_path \in source_files THEN e ELSE NoExif
             latitude == IF IsNone(exif.gps) THEN None ELSE Some(Val(exif.gps).lat)
             longitude == IF IsNone(exif.gps) THEN None ELSE Some(Val(exif.gps).lon)
             c == [NoCur EXCEPT !.photo_path = Some(photo_path), !.stages = <<"extract">>]
         IN  IF ~exif.ok
             THEN /\ cur' = [c EXCEPT !.op = "no_exif"]
                  /\ pc' = "path"
             ELSE /\ cur' = [c EXCEPT !.latitude = latitude, !.longitude = longitude,
                                      !.photo_date = exif.date,
                                      !.valid = _validate_gps_coordinates(latitude, longitude)]
                  /\ pc' = IF _validate_gps_coordinates(latitude, longitude) THEN "geocode" ELSE "path"
    /\ UNCHANGED <<config, geo_vars, photo_paths, idx, fs_vars, summary, count_vars, events>>

\* lines 419-432: extract the metadata of the next photo and validate its coordinate
Extract(exifs) ==
    /\ pc = "loop"
    /\ idx <= Len(photo_paths)
    /\ \E e \in exifs :
         LET photo_path == photo_paths[idx]
             exif == IF photo_path \in source_files THEN e ELSE NoExif
             latitude == IF IsNone(exif.gps) THEN None ELSE Some(Val(exif.gps).lat)
             longitude == IF IsNone(exif.gps) THEN None ELSE Some(Val(exif.gps).lon)
             c == [NoCur EXCEPT !.photo_path = Some(photo_path), !.stages = <<"extract">>]
         IN  IF ~exif.ok
             THEN /\ unsortable_photos' = unsortable_photos + 1
                  /\ events' = Append(events, ProgressInfo(processed_photos + 1, sortable_photos,
                                                           unsortable_photos + 1, photo_path))
                  /\ cur' = [c EXCEPT !.op = "no_exif"]
                  /\ pc' = "yield"
                  /\ UNCHANGED <<processed_photos, sortable_photos>>
             ELSE /\ cur' = [c EXCEPT !.latitude = latitude, !.longitude = longitude,
                                      !.photo_date = exif.date,
                                      !.valid = _validate_gps_coordinates(latitude, longitude)]
                  /\ pc' = IF _validate_gps_coordinates(latitude, longitude) THEN "geocode" ELSE "path"
                  /\ UNCHANGED <<count_vars, events>>
    /\ UNCHANGED <<config, geo_vars, photo_paths, idx, fs_vars, summary>>

\* reverse_geocode has ended with the record r (result, cache, file, calls)
\* and _reverse_geocode hands the name back to the loop (lines 519-525, 434)
ReverseGeocodeEnds(response, r) ==
    /\ location_cache' = r.cache
    /\ cache_file' = r.file
    /\ backend_calls' = backend_calls + r.calls
    /\ geocode_calls' = Append(geocode_calls,
           [latitude |-> Val(cur.latitude), longitude |-> Val(cur.longitude),
            response |-> response, result |-> r.result, calls |-> r.calls,
            cache_before |-> location_cache, cache_after |-> r.cache,
            file_after |-> r.file])
    /\ cur' = [cur EXCEPT !.city_rgeo = _reverse_geocode(r.result),
                          !.geocoded = TRUE, !.calls = r.calls,
                          !.stages = Append(@, "geocode")]
    /\ pc' = "path"
    /\ UNCHANGED <<config, saving, photo_paths, idx, count_vars, events, fs_vars, summary>>

\* Geolocator.reverse_geocode runs from start to end (lines 376-393)
ReverseGeocodeReturns(responses) ==
    \E response \in responses :
        ReverseGeocodeEnds(response,
                           reverse_geocode(Val(cur.latitude), Val(cur.longitude), response))

\* line 434: await self._reverse_geocode(latitude, longitude), the whole call
Geocode(responses) ==
    /\ pc = "geocode"
    /\ ReverseGeocodeReturns(responses)
    /\ UNCHANGED in_flight

\* lines 435-447: choose and create the destination directory; os.makedirs can fail
CreatePath(makedirs_ok) ==
    /\ pc = "path"
    /\ LET filtered == IF cur.valid THEN _apply_location_filters(cur.city_rgeo) ELSE Return(<<>>)
           city == filtered.value
           sortable == cur.valid /\ Len(city) > 0
           output_path == IF sortable THEN _create_output_path(city, cur.photo_date)
                          ELSE _create_unsortable_path(cur.photo_date)
       IN  IF filtered.raised
           THEN ExceptBranch(cur) /\ UNCHANGED dirs
           ELSE \E ok \in makedirs_ok :
                  IF ok
                  THEN /\ dirs' = dirs \cup {SubSeq(output_path, 1, k) : k \in 1..Len(output_path)}
                       /\ cur' = [cur EXCEPT !.city = IF cur.valid THEN Some(city) ELSE None,
                                             !.output_path = Some(output_path),
                                             !.is_sortable = sortable,
                                             !.stages = Append(@, "makedirs")]
                       /\ pc' = "place"
                       /\ UNCHANGED <<count_vars, events>>
                  ELSE /\ ExceptBranch([cur EXCEPT !.city = IF cur.valid THEN Some(city) ELSE None,
                                                   !.stages = Append(@, "makedirs")])
                       /\ UNCHANGED dirs
    /\ UNCHANGED <<config, geo_vars, photo_paths, idx, source_files, dest_files, summary>>

\* lines 449-462: copy or move the photo, count it and yield
Place(outcomes) ==
    /\ pc = "place"
    /\ \E outcome \in outcomes :
         LET photo_path == Val(cur.photo_path)
             output_path == Val(cur.output_path)
             p == IF config.copy_files THEN _copy_photo(photo_path, output_path, outcome)
                  ELSE _move_photo(photo_path, output_path, outcome)
         IN  /\ dest_files' = p.files
             /\ source_files' = p.sources
             /\ cur' = [cur EXCEPT !.destination_path = p.result, !.op = p.op,
                                   !.files_before = dest_files,
                                   !.stages = Append(@, "place")]
    /\ processed_photos' = processed_photos + 1
    /\ sortable_photos' = IF cur.is_sortable THEN sortable_photos + 1 ELSE sortable_photos
    /\ unsortable_photos' = IF cur.is_sortable THEN unsortable_photos ELSE unsortable_photos + 1
    /\ events' = Append(events, ProgressInfo(processed_photos', sortable_photos',
                                             unsortable_photos', Val(cur.photo_path)))
    /\ pc' = "yield"
    /\ UNCHANGED <<config, geo_vars, photo_paths, idx, dirs, summary>>

(***************************************************************************)
(* GUI.process_photos_async                                                *)
(***************************************************************************)
\* faulty variant: a photo that ended in the except branch is taken up once more
OnProgress_failed_photo_again ==
    /\ pc = "yield"
    /\ idx' = IF cur.op = "exception" /\ Len(events) = idx THEN idx ELSE idx + 1
    /\ pc' = "loop"
    /\ UNCHANGED <<config, geo_vars, photo_paths, count_vars, cur, events, fs_vars, summary>>

\* faulty variant: the loop hands the next photo out while the current one is
\* still being processed, as a pool of workers would
OnProgress_next_started_early ==
    /\ pc = "yield" \/ (pc \in {"geocode", "backend", "path", "place"} /\ idx < Len(photo_paths))
    /\ idx' = idx + 1
    /\ pc' = "loop"
    /\ UNCHANGED <<config, geo_vars, photo_paths, count_vars, cur, events, fs_vars, summary>>

\* lines 1066-1067: take the yielded tuple and resume the generator
OnProgress ==
    /\ pc = "yield"
    /\ idx' = idx + 1
    /\ pc' = "loop"
    /\ UNCHANGED <<config, geo_vars, photo_paths, count_vars, cur, events, fs_vars, summary>>

\* lines 1068-1074: the generator is exhausted; show the summary, save the cache
Complete ==
    /\ pc = "loop"
    /\ idx > Len(photo_paths)
    /\ LET progress_info == events[Len(events)]
       IN  summary' = Some([total_photos |-> progress_info.processed,
                            processed_photos |-> progress_info.total,
                            sortable_photos |-> progress_info.sortable,
                            unsortable_photos |-> progress_info.unsortable])
    /\ cache_file' = _save_cache(location_cache)
    /\ pc' = "done"
    /\ UNCHANGED <<config, location_cache, backend_calls, geocode_calls, in_flight, saving,
                   photo_paths, idx, count_vars, cur, events, fs_vars>>

(***************************************************************************)
(* reverse_geocode with the backend call as two steps: the call through    *)
(* self.reverse starts (line 382) and, later, returns or raises            *)
(***************************************************************************)
\* the cache lookup of lines 377-380 finds a name for the current photo
CacheHit ==
    /\ config.cache_geocoding_results
    /\ ~Falsy(_is_cached_location_nearby(Val(cur.latitude), Val(cur.longitude)))

\* the call self.reverse(f"{latitude}, {longitude}", ...) of the current photo
GatewayCall == [query |-> format_key(Val(cur.latitude), Val(cur.longitude)), photo |-> idx]

\* faulty variant: the loop goes on while the call is in flight
GeocodeCall_not_awaited(responses) ==
    /\ pc = "geocode"
    /\ IF CacheHit
       THEN ReverseGeocodeReturns(responses) /\ UNCHANGED in_flight
       ELSE /\ in_flight' = in_flight \cup {GatewayCall}
            /\ pc' = "path"
            /\ UNCHANGED <<config, location_cache, cache_file, backend_calls, geocode_calls, saving,
                           photo_paths, idx, count_vars, cur, events, fs_vars, summary>>

\* lines 434, 519, 377-382: reverse_geocode runs up to the cache lookup; on a
\* hit it returns at once, otherwise the call through self.reverse starts and
\* process_photos waits for it
GeocodeCall(responses) ==
    /\ pc = "geocode"
    /\ IF CacheHit
       THEN ReverseGeocodeReturns(responses) /\ UNCHANGED in_flight
       ELSE /\ in_flight' = in_flight \cup {GatewayCall}
            /\ pc' = "backend"
            /\ UNCHANGED <<config, location_cache, cache_file, backend_calls, geocode_calls, saving,
                           photo_paths, idx, count_vars, cur, events, fs_vars, summary>>

\* lines 382-393: the call returns or raises, and reverse_geocode finishes
GeocodeReturn(responses) ==
    /\ pc = "backend"
    /\ in_flight' = in_flight \ {GatewayCall}
    /\ \E response \in responses :
          ReverseGeocodeEnds(response,
                             reverse_geocode_after_miss(Val(cur.latitude), Val(cur.longitude),
                                                        response))

(***************************************************************************)
(* A second process_photos_async task: start_processing creates a task on  *)
(* every press of Start (line 1018) without looking at the one that is     *)
(* running, both tasks use the one Geolocator, and each runs               *)
(* reverse_geocode in a thread of its own (line 519).  Only what the       *)
(* second task does to the Geolocator is followed.                         *)
(***************************************************************************)
\* the second task's thread has found no cached name for the coordinate of its
\* photo (lines 377-380) and starts its call through self.reverse (line 382)
SecondTaskCall(coordinates) ==
    /\ pc # "done"
    /\ \A c \in in_flight : c.photo # 0
    /\ backend_calls + Cardinality(in_flight) <= Len(photo_paths)   \* keeps the call count finite
    /\ \E g \in coordinates :
          /\ ~(config.cache_geocoding_results /\ ~Falsy(_is_cached_location_nearby(g.lat, g.lon)))
          /\ in_flight' = in_flight \cup {[query |-> format_key(g.lat, g.lon), photo |-> 0]}
    /\ UNCHANGED <<config, location_cache, cache_file, backend_calls, geocode_calls, saving,
                   photo_paths, idx, pc, count_vars, cur, events, fs_vars, summary>>

\* the second task's call returns or raises, and its reverse_geocode finishes
\* (lines 382-393)
SecondTaskReturn(responses) ==
    /\ \E c \in in_flight, response \in responses :
          LET g == parse_key(c.query)
              r == reverse_geocode_after_miss(g.lat, g.lon, response)
          IN  /\ c.photo = 0
              /\ in_flight' = in_flight \ {c}
              /\ location_cache' = r.cache
              /\ cache_file' = r.file
              /\ backend_calls' = backend_calls + 1
              /\ geocode_calls' = Append(geocode_calls,
                     [latitude |-> g.lat, longitude |-> g.lon,
                      response |-> response, result |-> r.result, calls |-> 1,
                      cache_before |-> location_cache, cache_after |-> r.cache,
                      file_after |-> r.file])
    /\ UNCHANGED <<config, saving, photo_paths, idx, pc, count_vars, cur, events, fs_vars, summary>>

(***************************************************************************)
(* The other ways process_photos_async ends (lines 1064-1074)              *)
(***************************************************************************)
\* the task is cancelled (cleanup, lines 1159-1161) while it waits for the
\* thread of reverse_geocode (line 519) or of the copy or move (659, 694):
\* CancelledError passes the except clauses and the finally clause saves the
\* cache; the thread of a call in flight goes on
Cancelled ==
    /\ pc \in {"backend", "place"}
    /\ cache_file' = _save_cache(location_cache)
    /\ pc' = "cancelled"
    /\ UNCHANGED <<config, location_cache, backend_calls, geocode_calls, in_flight, saving,
                   photo_paths, idx, count_vars, cur, events, fs_vars, summary>>

\* handing a yielded tuple to the GUI raises (line 1067): the except clause
\* shows the error and the finally clause saves the cache
LoopRaises ==
    /\ pc = "yield"
    /\ cache_file' = _save_cache(location_cache)
    /\ pc' = "error"
    /\ UNCHANGED <<config, location_cache, backend_calls, geocode_calls, in_flight, saving,
                   photo_paths, idx, count_vars, cur, events, fs_vars, summary>>

\* the thread of the call that was in flight at the cancellation finishes
\* reverse_geocode (lines 382-393)
AbandonedCallReturns(responses) ==
    /\ pc = "cancelled"
    /\ \E c \in in_flight, response \in responses :
          LET g == parse_key(c.query)
              r == reverse_geocode_after_miss(g.lat, g.lon, response)
          IN  /\ in_flight' = in_flight \ {c}
              /\ location_cache' = r.cache
              /\ cache_file' = r.file
              /\ backend_calls' = backend_calls + 1
              /\ geocode_calls' = Append(geocode_calls,
                     [latitude |-> g.lat, longitude |-> g.lon,
                      response |-> response, result |-> r.result, calls |-> 1,
                      cache_before |-> location_cache, cache_after |-> r.cache,
                      file_after |-> r.file])
    /\ UNCHANGED <<config, saving, photo_paths, idx, pc, count_vars, cur, events, fs_vars, summary>>

(***************************************************************************)
(* The last _save_cache of a run, statement by statement, and a crash      *)
(***************************************************************************)
\* lines 1068-1069, then 1074 and 327: the summary is shown, and
\* open(cache_file, 'w') leaves the file empty
CompleteOpen ==
    /\ pc = "loop"
    /\ idx > Len(photo_paths)
    /\ LET progress_info == events[Len(events)]
       IN  summary' = Some([total_photos |-> progress_info.processed,
                            processed_photos |-> progress_info.total,
                            sortable_photos |-> progress_info.sortable,
                            unsortable_photos |-> progress_info.unsortable])
    /\ saving' = Some(cache_file)
    /\ cache_file' = <<>>
    /\ pc' = "dump"
    /\ UNCHANGED <<config, location_cache, backend_calls, geocode_calls, in_flight,
                   photo_paths, idx, count_vars, cur, events, fs_vars>>

\* line 328: json.dump writes the dict to the file piece by piece
SaveDump ==
    /\ pc = "dump"
    /\ Len(cache_file) < Len(location_cache)
    /\ cache_file' = Append(cache_file, location_cache[Len(cache_file) + 1])
    /\ UNCHANGED <<config, location_cache, backend_calls, geocode_calls, in_flight, saving,
                   photo_paths, idx, pc, count_vars, cur, events, fs_vars, summary>>

\* line 327: leaving the with block closes the complete file
SaveClose ==
    /\ pc = "dump"
    /\ cache_file = location_cache
    /\ saving' = None
    /\ pc' = "done"
    /\ UNCHANGED <<config, location_cache, cache_file, backend_calls, geocode_calls, in_flight,
                   photo_paths, idx, count_vars, cur, events, fs_vars, summary>>

\* the process is killed; the files stay as they are
Crash ==
    /\ pc \notin {"done", "crashed"}
    /\ pc' = "crashed"
    /\ UNCHANGED <<config, geo_vars, photo_paths, idx, count_vars, cur, events, fs_vars, summary>>

(***************************************************************************)
(* Configurations, inputs and initial states                               *)
(***************************************************************************)
\* load_config's defaults (lines 61-141), with the cache threshold in metres
DefaultConfig ==
    [copy_files |-> TRUE, skip_duplicates |-> TRUE, duplicate_suffix |-> "_duplicate",
     sort_by_location |-> TRUE, sort_by_date |-> TRUE,
     group_by_country |-> FALSE, group_by_state |-> FALSE, group_by_city |-> TRUE,
     date_format |-> <<"%Y", "-", "%m", "-", "%d">>,
     unsortable_folder |-> Str("Unsortable"),
     cache_geocoding_results |-> TRUE, cache_distance_threshold |-> 1000,
     geocoding_cache_size |-> 100, max_processes |-> 4]

\* photos that all have the file name a.jpg, in input directories in1, in2, ...
Photo(k) == [dir |-> "in" \o ToString(k), name |-> <<"a", ".jpg">>]
\* a photo whose own name looks like a suffixed duplicate of a.jpg
SuffixedPhoto == [dir |-> "in0", name |-> <<"a", "_dup", "1", ".jpg">>]

MaxPhotos == 2

\* the batches <<Photo(1)>>, <<Photo(1), Photo(2)>>, ... of at most n photos
Batches(n) == {[i \in 1..k |-> Photo(i)] : k \in 1..n}
\* the same, with the suffixed photo in front
SuffixedBatches(n) == {<<SuffixedPhoto>> \o [i \in 1..(k - 1) |-> Photo(i)] : k \in 1..n}

\* the state after Geolocator.__init__ and before process_photos starts
InitWith(configs, batches, caches, files) ==
    /\ config \in configs
    /\ cache_file \in caches
    /\ location_cache = cache_file        \* Geolocator._load_cache
    /\ backend_calls = 0
    /\ geocode_calls = <<>>
    /\ in_flight = {}
    /\ saving = None
    /\ photo_paths \in batches
    /\ idx = 1
    /\ pc = "loop"
    /\ processed_photos = 0
    /\ sortable_photos = 0
    /\ unsortable_photos = 0
    /\ cur = NoCur
    /\ events = <<>>
    /\ source_files = {photo_paths[i] : i \in 1..Len(photo_paths)}
    /\ dest_files \in files
    /\ dirs = {output_directory} \cup {f.dir : f \in dest_files}
    /\ summary = None

(***************************************************************************)
(* Spec: the pipeline over a batch, with every per-photo failure           *)
(***************************************************************************)
FlowExifs == {NoExif} \cup {Exif(gps, date) :
                gps \in {None, Some(NullIsland), Some(NewYork)},
                date \in {None, Some(March15)}}
FlowResponses == {Raises, NoResult, Found(NewYorkAddress), Found(EmptyAddress)}
FlowConfigs == {[DefaultConfig EXCEPT !.copy_files = c, !.skip_duplicates = s] : c, s \in BOOLEAN}

Init == InitWith(FlowConfigs, Batches(MaxPhotos), {<<>>}, {{}})

Next ==
    \/ Extract(FlowExifs)
    \/ Geocode(FlowResponses)
    \/ CreatePath(BOOLEAN)
    \/ Place(TransferOutcomes)
    \/ OnProgress
    \/ Complete

Spec == Init /\ [][Next]_vars

(***************************************************************************)
(* SpecGeo: the geocode cache under every caching setting and threshold,   *)
(* starting from an empty or a loaded snapshot                             *)
(***************************************************************************)
CacheEntry(coordinate, name) == [key |-> format_key(coordinate.lat, coordinate.lon), name |-> name]
NewYorkName == <<"New York", SEP, "New York", SEP, "United States">>
ChicagoName == <<"Chicago", SEP, "Illinois", SEP, "United States">>

GeoExifs == {Exif(Some(gps), None) : gps \in {NewYork, NearNewYork, Chicago}}
GeoResponses == {Raises, NoResult, Found(NewYorkAddress), Found(TownAddress), Found(EmptyAddress)}
\* geocoding_cache_size is set to the size of the largest loaded snapshot
GeoConfigs == {[DefaultConfig EXCEPT !.cache_geocoding_results = c, !.cache_distance_threshold = t,
                                     !.geocoding_cache_size = 2] :
                  c \in BOOLEAN, t \in {-1000, 0, 1000}}
GeoCaches == {<<>>, <<CacheEntry(NewYork, NewYorkName)>>,
              <<CacheEntry(Chicago, ChicagoName), CacheEntry(NearNewYork, NewYorkName)>>}

InitGeo == InitWith(GeoConfigs, Batches(MaxPhotos), GeoCaches, {{}})

NextGeo ==
    \/ Extract(GeoExifs)
    \/ Geocode(GeoResponses)
    \/ CreatePath({TRUE})
    \/ Place({"ok"})
    \/ OnProgress
    \/ Complete

SpecGeo == InitGeo /\ [][NextGeo]_vars

(***************************************************************************)
(* SpecCfg: one photo under every sorting and grouping configuration       *)
(***************************************************************************)
CfgExifs == {NoExif} \cup {Exif(gps, date) :
                gps \in {None, Some(NullIsland), Some(London), Some(NewYork)},
                date \in {None, Some(March15)}}
CfgResponses == {Raises, NoResult, Found(NewYorkAddress), Found(TownAddress),
                 Found(CountryAddress), Found(QuebecAddress), Found(EmptyAddress),
                 Found(CityCountryAddress)}
CfgConfigs == {[DefaultConfig EXCEPT !.copy_files = c, !.sort_by_location = l, !.sort_by_date = d,
                                     !.group_by_country = gc, !.group_by_state = gs,
                                     !.group_by_city = gci] :
                  c \in BOOLEAN, l \in BOOLEAN, d \in BOOLEAN,
                  gc \in BOOLEAN, gs \in BOOLEAN, gci \in BOOLEAN}

InitCfg == InitWith(CfgConfigs, {<<Photo(1)>>}, {<<>>}, {{}})

NextCfg ==
    \/ Extract(CfgExifs)
    \/ Geocode(CfgResponses)
    \/ CreatePath(BOOLEAN)
    \/ Place(TransferOutcomes)
    \/ OnProgress
    \/ Complete

SpecCfg == InitCfg /\ [][NextCfg]_vars

(***************************************************************************)
(* SpecDup: placement into a directory that already holds files            *)
(***************************************************************************)
\* a file left in the unsortable folder by an earlier run
Earlier(name) == [dir |-> output_directory \o <<DefaultConfig.unsortable_folder>>, name |-> name,
                  content |-> [dir |-> "earlier", name |-> name], complete |-> TRUE]
EarlierNames == {<<"a", ".jpg">>, <<"a", "_dup", "1", ".jpg">>, <<"a", "_dup", "2", ".jpg">>}

DupExifs == {Exif(None, None), Exif(Some(NewYork), None)}
DupResponses == {Found(NewYorkAddress), Found(EmptyAddress)}
DupConfigs == {[DefaultConfig EXCEPT !.copy_files = c, !.skip_duplicates = s, !.duplicate_suffix = x,
                                     !.sort_by_location = FALSE, !.sort_by_date = FALSE] :
                  c \in BOOLEAN, s \in BOOLEAN, x \in {"_dup", "_duplicate"}}

InitDup == InitWith(DupConfigs, Batches(MaxPhotos) \cup SuffixedBatches(MaxPhotos), {<<>>},
                    {{Earlier(n) : n \in names} : names \in SUBSET EarlierNames})

NextDup ==
    \/ Extract(DupExifs)
    \/ Geocode(DupResponses)
    \/ CreatePath({TRUE})
    \/ Place(TransferOutcomes)
    \/ OnProgress
    \/ Complete

SpecDup == InitDup /\ [][NextDup]_vars

(***************************************************************************)
(* SpecCrash: a run that can be killed at any step, with the _save_cache   *)
(* that ends the run taken statement by statement (the _save_cache calls   *)
(* inside reverse_geocode run the same statements)                         *)
(***************************************************************************)
CrashExifs == {NoExif, Exif(Some(NewYork), None), Exif(Some(Chicago), None)}
CrashResponses == {NoResult, Found(NewYorkAddress)}

InitCrash == InitWith({DefaultConfig}, Batches(MaxPhotos), GeoCaches, {{}})

NextCrash ==
    \/ Extract(CrashExifs)
    \/ Geocode(CrashResponses)
    \/ CreatePath({TRUE})
    \/ Place({"ok"})
    \/ OnProgress
    \/ CompleteOpen
    \/ SaveDump
    \/ SaveClose
    \/ Crash

SpecCrash == InitCrash /\ [][NextCrash]_vars

(***************************************************************************)
(* SpecGate: the backend call of each photo as a call in flight            *)
(***************************************************************************)
GateResponses == {Raises, NoResult, Found(NewYorkAddress)}
GateConfigs == {[DefaultConfig EXCEPT !.cache_geocoding_results = c, !.max_processes = m] :
                   c \in BOOLEAN, m \in {1, 4}}

InitGate == InitWith(GateConfigs, Batches(MaxPhotos), GeoCaches, {{}})

NextGate ==
    \/ Extract(GeoExifs)
    \/ GeocodeCall(GateResponses)
    \/ GeocodeReturn(GateResponses)
    \/ CreatePath({TRUE})
    \/ Place({"ok"})
    \/ OnProgress
    \/ Complete

SpecGate == InitGate /\ [][NextGate]_vars

(***************************************************************************)
(* SpecRace: two tasks started by two presses of Start, sharing the cache  *)
(***************************************************************************)
RaceCoordinates == {NewYork, NearNewYork}
RaceExifs == {Exif(Some(gps), None) : gps \in RaceCoordinates}
RaceResponses == {NoResult, Found(NewYorkAddress), Found(TownAddress)}
RaceConfigs == {[DefaultConfig EXCEPT !.cache_distance_threshold = t] : t \in {0, 1000}}

InitRace == InitWith(RaceConfigs, Batches(MaxPhotos), {<<>>}, {{}})

NextRace ==
    \/ Extract(RaceExifs)
    \/ GeocodeCall(RaceResponses)
    \/ GeocodeReturn(RaceResponses)
    \/ CreatePath({TRUE})
    \/ Place({"ok"})
    \/ OnProgress
    \/ Complete
    \/ SecondTaskCall(RaceCoordinates)
    \/ SecondTaskReturn(RaceResponses)

SpecRace == InitRace /\ [][NextRace]_vars

(***************************************************************************)
(* SpecEnd: a run that ends by itself, by an exception or by cancellation  *)
(***************************************************************************)
EndResponses == {Raises, NoResult, Found(NewYorkAddress), Found(TownAddress)}

InitEnd == InitWith(GateConfigs, Batches(MaxPhotos), GeoCaches, {{}})

NextEnd ==
    \/ Extract(GeoExifs)
    \/ GeocodeCall(EndResponses)
    \/ GeocodeReturn(EndResponses)
    \/ CreatePath({TRUE})
    \/ Place({"ok"})
    \/ OnProgress
    \/ Complete
    \/ Cancelled
    \/ LoopRaises
    \/ AbandonedCallReturns(EndResponses)

SpecEnd == InitEnd /\ [][NextEnd]_vars

(***************************************************************************)
(* Properties                                                              *)
(***************************************************************************)
\* the cache entries that lie within the threshold of a query
NearEntries(cache, latitude, longitude) ==
    {i \in 1..Len(cache) :
        geodesic([lat |-> latitude, lon |-> longitude], parse_key(cache[i].key))
            <= config.cache_distance_threshold}

\* C1: with caching enabled, a reverse_geocode call whose query has a cache
\* entry within the threshold returns the place name of such an entry and makes
\* no call to the backend.
C1_CacheHitSkipsBackend ==
    \A k \in 1..Len(geocode_calls) :
        LET g == geocode_calls[k]
            near == NearEntries(g.cache_before, g.latitude, g.longitude)
        IN  (config.cache_geocoding_results /\ near # {}) =>
                /\ g.calls = 0
                /\ \E i \in near : g.result = Some(g.cache_before[i].name)

\* a call answered from an entry that is not the first of the cache
C1_Witness ==
    \E k \in 1..Len(geocode_calls) :
        LET g == geocode_calls[k]
            near == NearEntries(g.cache_before, g.latitude, g.longitude)
        IN  /\ config.cache_geocoding_results
            /\ near # {} /\ 1 \notin near
            /\ g.calls = 0
            /\ g.result = Some(NewYorkName)

SameQuery(g1, g2) == g1.latitude = g2.latitude /\ g1.longitude = g2.longitude
\* the place name a call returned: None and the empty str both are "no place name"
PlaceName(result) == IF Falsy(result) THEN None ELSE result

\* C2 (as stated): with caching enabled, two reverse_geocode calls in a row with
\* the same coordinate return the same place name, and the second leaves the
\* number of cache entries as the first left it.
C2_Original ==
    \A k \in 1..(Len(geocode_calls) - 1) :
        LET g1 == geocode_calls[k]
            g2 == geocode_calls[k + 1]
        IN  (config.cache_geocoding_results /\ SameQuery(g1, g2)) =>
                /\ PlaceName(g2.result) = PlaceName(g1.result)
                /\ Len(g2.cache_after) = Len(g1.cache_after)

\* C2 (amended): the same, when the first call returned a place name and the
\* threshold is not negative.
C2_IdempotentAfterSuccess ==
    \A k \in 1..(Len(geocode_calls) - 1) :
        LET g1 == geocode_calls[k]
            g2 == geocode_calls[k + 1]
        IN  (/\ config.cache_geocoding_results
             /\ SameQuery(g1, g2)
             /\ ~Falsy(g1.result)
             /\ config.cache_distance_threshold >= 0) =>
                /\ PlaceName(g2.result) = PlaceName(g1.result)
                /\ Len(g2.cache_after) = Len(g1.cache_after)

\* a miss that stored its answer, then the same query again while the backend
\* would have answered differently
C2_Witness ==
    \E k \in 1..(Len(geocode_calls) - 1) :
        LET g1 == geocode_calls[k]
            g2 == geocode_calls[k + 1]
        IN  /\ config.cache_geocoding_results
            /\ config.cache_distance_threshold >= 0
            /\ SameQuery(g1, g2)
            /\ g1.calls = 1 /\ ~Falsy(g1.result)
            /\ g2.response # g1.response
            /\ g2.result = g1.result

HasMetadata == ~IsNone(cur.photo_path) /\ cur.op # "no_exif"

\* the coordinate of the current photo lies in the valid bounding box
InBox ==
    /\ ~IsNone(cur.latitude) /\ ~IsNone(cur.longitude)
    /\ 240000 <= Val(cur.latitude) /\ Val(cur.latitude) <= 490000
    /\ -1250000 <= Val(cur.longitude) /\ Val(cur.longitude) <= -660000

UnsortableRoot == <<Str("output"), config.unsortable_folder>>
March15Dir == <<"2024", "-", "03", "-", "15">>

\* a directory path lies under (or is) another
Under(path, root) == Len(path) >= Len(root) /\ SubSeq(path, 1, Len(root)) = root

\* the current photo's file now is at its destination path, complete
PlacedAt(dir) ==
    /\ cur.op \in {"copied", "moved"}
    /\ ~IsNone(cur.destination_path)
    /\ Val(cur.destination_path).dir = dir
    /\ [dir |-> dir, name |-> Val(cur.destination_path).name,
        content |-> Val(cur.photo_path), complete |-> TRUE] \in dest_files

\* C4: whatever fails for a photo, process_photos goes on: every photo's turn
\* ends with its own yielded tuple and the loop then stands at the next photo,
\* the run ends only past the last photo, having taken up every photo of the
\* list in order, and a backend error ends reverse_geocode with the result None.
C4_FailureDoesNotAbortBatch ==
    /\ pc = "yield" => Len(events) = idx /\ events[idx].photo_path = photo_paths[idx]
    /\ pc \in {"loop", "done"} => Len(events) = idx - 1
    /\ pc = "done" =>
          /\ idx = Len(photo_paths) + 1
          /\ \A i \in 1..Len(photo_paths) : events[i].photo_path = photo_paths[i]
    /\ \A k \in 1..Len(geocode_calls) :
          (geocode_calls[k].calls = 1 /\ geocode_calls[k].response.raises) =>
              IsNone(geocode_calls[k].result)

\* a batch whose first photo ended in the except branch and whose last was copied
C4_Witness ==
    /\ pc = "done"
    /\ Len(photo_paths) >= 2
    /\ events[1].processed = 0 /\ events[1].unsortable = 1
    /\ cur.op = "copied"
    /\ cur.photo_path = Some(photo_paths[Len(photo_paths)])

\* C5 (as stated): a photo with metadata and a valid coordinate whose geocoding
\* returned None is given the unsortable directory, its copy or move is
\* attempted there, and it is counted unsortable.
C5_GeocodeNoneRoutedToUnsortable ==
    (pc = "yield" /\ HasMetadata /\ InBox /\ cur.geocoded /\ IsNone(cur.city_rgeo)) =>
        /\ ~IsNone(cur.output_path)
        /\ Under(Val(cur.output_path), UnsortableRoot)
        /\ cur.op \in {"copied", "moved", "skipped", "failed"}
        /\ ~cur.is_sortable

\* C6: a photo whose coordinate is absent or outside the bounding box is never
\* geocoded (no reverse_geocode call, no backend call), and the directory it is
\* given and the place its file lands lie under the unsortable folder.
C6_InvalidCoordinateSkipsGeocode ==
    (HasMetadata /\ ~InBox) =>
        /\ ~cur.geocoded
        /\ cur.calls = 0
        /\ \A i \in 1..Len(cur.stages) : cur.stages[i] # "geocode"
        /\ ~IsNone(cur.output_path) => Under(Val(cur.output_path), UnsortableRoot)
        /\ ~IsNone(cur.destination_path) =>
              Under(Val(cur.destination_path).dir, UnsortableRoot)
        /\ pc \in {"place", "yield"} => (cur.op = "exception" \/ ~IsNone(cur.output_path))

\* the photo tagged (0.0, 0.0) copied into the unsortable folder
C6_Witness ==
    /\ pc = "yield"
    /\ cur.latitude = Some(0) /\ cur.longitude = Some(0)
    /\ cur.photo_date = Some(March15)
    /\ PlacedAt(<<Str("output"), Str("Unsortable"), March15Dir>>)

\* the scenario of C7: New York, 2024-03-15, sorted by location and date, grouped by city
C7_Scenario ==
    /\ cur.latitude = Some(407128) /\ cur.longitude = Some(-740060)
    /\ cur.photo_date = Some(March15)
    /\ cur.geocoded
    /\ geocode_calls[Len(geocode_calls)].calls = 1
    /\ geocode_calls[Len(geocode_calls)].response = Found(NewYorkAddress)
    /\ config.sort_by_location /\ config.sort_by_date
    /\ config.group_by_city /\ ~config.group_by_country /\ ~config.group_by_state
    /\ config.date_format = <<"%Y", "-", "%m", "-", "%d">>
    /\ ~IsNone(cur.output_path)

\* C7 (as stated): in the scenario the destination directory is
\* <output>/New York, New York, United States/2024-03-15.
C7_Original ==
    C7_Scenario =>
        Val(cur.output_path)
            = <<Str("output"), <<"New York", ", ", "New York", ", ", "United States">>, March15Dir>>

\* C7 (amended): in the scenario the destination directory is
\* <output>/United States, New York, New York/2024-03-15: the place is written
\* country first.
C7_CountryFirstDestination ==
    C7_Scenario =>
        Val(cur.output_path)
            = <<Str("output"), <<"United States", ", ", "New York", ", ", "New York">>, March15Dir>>

\* the scenario, with the photo copied into that directory
C7_Witness ==
    /\ C7_Scenario
    /\ PlacedAt(<<Str("output"), <<"United States", ", ", "New York", ", ", "New York">>, March15Dir>>)

\* C8: a photo with metadata and no GPS tags gets, with a capture date and
\* sorting by date and by location on, the directory
\* <output>/<unsortable_folder>/<date> (<output>/Unsortable/2024-03-15), and
\* with no date or date sorting off <output>/<unsortable_folder>; a file that
\* is copied or moved is in that directory.
C8_NoGpsDestination ==
    (HasMetadata /\ IsNone(cur.latitude) /\ IsNone(cur.longitude) /\ ~IsNone(cur.output_path)) =>
        /\ (config.sort_by_date /\ config.sort_by_location /\ cur.photo_date = Some(March15)) =>
              /\ Val(cur.output_path) = UnsortableRoot \o <<March15Dir>>
              /\ cur.op \in {"copied", "moved"} => PlacedAt(UnsortableRoot \o <<March15Dir>>)
        /\ (IsNone(cur.photo_date) \/ ~config.sort_by_date) =>
              /\ Val(cur.output_path) = UnsortableRoot
              /\ cur.op \in {"copied", "moved"} => PlacedAt(UnsortableRoot)

\* a dated photo without GPS tags, moved into <output>/Unsortable/2024-03-15
C8_Witness ==
    /\ HasMetadata /\ IsNone(cur.latitude)
    /\ cur.photo_date = Some(March15)
    /\ config.sort_by_date /\ config.sort_by_location
    /\ cur.op = "moved"
    /\ PlacedAt(<<Str("output"), Str("Unsortable"), March15Dir>>)

\* a file named `name` was in directory `dir` when the current photo's placement started
ExistedBefore(dir, name) == \E f \in cur.files_before : f.dir = dir /\ f.name = name

\* <base><suffix><i><ext> for a file name whose last token is the extension
Suffixed(name, i) ==
    SubSeq(name, 1, Len(name) - 1) \o <<config.duplicate_suffix, ToString(i)>>
        \o <<name[Len(name)]>>

\* C9: with skip_duplicates off, a photo placed in a directory that already has
\* a file of its name gets the name <base><suffix><i><ext> for the smallest
\* i >= 1 whose name was not in the directory (so <base><suffix>1<ext> when no
\* suffixed sibling exists), and no placed photo takes a name that existed.
C9_SmallestFreeSuffix ==
    (cur.op \in {"copied", "moved"} /\ ~config.skip_duplicates) =>
        LET dir == Val(cur.output_path)
            name == Val(cur.photo_path).name
            final == Val(cur.destination_path).name
        IN  /\ Val(cur.destination_path).dir = dir
            /\ ~ExistedBefore(dir, final)
            /\ ~ExistedBefore(dir, name) => final = name
            /\ ExistedBefore(dir, name) =>
                  \E i \in 1..(Cardinality(cur.files_before) + 1) :
                      /\ final = Suffixed(name, i)
                      /\ \A j \in 1..(i - 1) : ExistedBefore(dir, Suffixed(name, j))

\* a.jpg placed as a_dup3.jpg beside a.jpg, a_dup1.jpg and a_dup2.jpg
C9_Witness ==
    /\ cur.op \in {"copied", "moved"}
    /\ ~config.skip_duplicates
    /\ config.duplicate_suffix = "_dup"
    /\ Val(cur.photo_path).name = <<"a", ".jpg">>
    /\ ExistedBefore(Val(cur.output_path), <<"a", ".jpg">>)
    /\ ExistedBefore(Val(cur.output_path), <<"a", "_dup", "1", ".jpg">>)
    /\ ExistedBefore(Val(cur.output_path), <<"a", "_dup", "2", ".jpg">>)
    /\ Val(cur.destination_path).name = <<"a", "_dup", "3", ".jpg">>
    /\ PlacedAt(Val(cur.output_path))

\* the current photo went through _copy_photo / _move_photo
PlacementDone == cur.op \in {"copied", "moved", "skipped", "failed"}

\* C10: with skip_duplicates on, a placement that finds a file of the photo's
\* name in the destination directory does nothing: the files under the output
\* directory are what they were, the source file still exists, and the result
\* is None (skipped), not a path.
C10_SkipDuplicateDoesNothing ==
    (/\ PlacementDone
     /\ config.skip_duplicates
     /\ ExistedBefore(Val(cur.output_path), Val(cur.photo_path).name)) =>
        /\ cur.op = "skipped"
        /\ IsNone(cur.destination_path)
        /\ dest_files = cur.files_before
        /\ Val(cur.photo_path) \in source_files

\* a move skipped because the batch's previous photo has the same name
C10_Witness ==
    /\ pc = "yield"
    /\ idx = 2
    /\ ~config.copy_files /\ config.skip_duplicates
    /\ cur.op = "skipped"
    /\ \E f \in dest_files :
          /\ f.dir = Val(cur.output_path) /\ f.name = Val(cur.photo_path).name
          /\ f.content = photo_paths[1]
    /\ Val(cur.photo_path) \in source_files

\* C11: no step of a run removes or changes a file under the output directory,
\* and every file a step writes is at a path where no file was when the step
\* began, whatever skip_duplicates and copy_files are.
C11_NoSilentOverwrite ==
    [][/\ \A f \in dest_files : f \in dest_files'
       /\ \A g \in dest_files' \ dest_files : ~exists(g.dir, g.name)]_vars

\* with skip_duplicates off, a second photo named a.jpg was placed under a
\* suffixed name and both files that were there before still are
C11_Witness ==
    /\ cur.op \in {"copied", "moved"}
    /\ ~config.skip_duplicates
    /\ Cardinality(cur.files_before) >= 2
    /\ ExistedBefore(Val(cur.output_path), Val(cur.photo_path).name)
    /\ cur.files_before \subseteq dest_files
    /\ Cardinality(dest_files) = Cardinality(cur.files_before) + 1
    /\ PlacedAt(Val(cur.output_path))

\* the file of photo p is complete at some path under the output directory
Transferred(p) == \E f \in dest_files : f.content = p /\ f.complete

\* C12: in copy mode every photo of the batch still is at its source path
\* after any placement outcome; in move mode a photo is gone from its source
\* path only if its move succeeded and its file is complete at the final
\* destination path, and it still is at its source path after a skipped or a
\* failed move.
C12_SourceRemovedOnlyByCompletedMove ==
    /\ config.copy_files =>
          \A i \in 1..Len(photo_paths) : photo_paths[i] \in source_files
    /\ ~config.copy_files =>
          \A i \in 1..Len(photo_paths) :
              photo_paths[i] \notin source_files => Transferred(photo_paths[i])
    /\ (PlacementDone /\ ~config.copy_files) =>
          /\ cur.op = "moved" => /\ Val(cur.photo_path) \notin source_files
                                 /\ PlacedAt(Val(cur.output_path))
          /\ cur.op \in {"skipped", "failed"} => Val(cur.photo_path) \in source_files

\* a batch in move mode whose first photo was moved and whose second photo's
\* move failed partway, leaving an incomplete file and the source in place
C12_Witness ==
    /\ pc = "yield"
    /\ ~config.copy_files
    /\ idx = 2
    /\ photo_paths[1] \notin source_files /\ Transferred(photo_paths[1])
    /\ cur.op = "failed"
    /\ photo_paths[2] \in source_files
    /\ \E f \in dest_files : f.content = photo_paths[2] /\ ~f.complete

\* C13: process_photos yields exactly one tuple per photo of the list: the
\* k-th tuple carries the path of the k-th photo and total = n, a photo's turn
\* ends with its tuple yielded whatever its outcome (placed, unsortable,
\* skipped, no metadata, exception), and the finished run has yielded n tuples.
C13_OneEventPerPhoto ==
    /\ Len(events) <= Len(photo_paths)
    /\ \A k \in 1..Len(events) :
          /\ events[k].photo_path = photo_paths[k]
          /\ events[k].total = Len(photo_paths)
    /\ pc = "yield" => Len(events) = idx
    /\ pc \in {"geocode", "path", "place"} => Len(events) = idx - 1
    /\ pc = "done" => Len(events) = Len(photo_paths)

\* a finished batch of two: the first photo had no metadata, the second ended
\* in the except branch
C13_Witness ==
    /\ pc = "done"
    /\ Len(photo_paths) = 2 /\ Len(events) = 2
    /\ events[1].processed = 1 /\ events[1].unsortable = 1 /\ processed_photos = 0
    /\ cur.op = "exception"
    /\ events[2].photo_path = photo_paths[2]

\* C14 (as stated): the k-th yielded tuple carries processed = k whether the
\* photo succeeded or failed, so the values never decrease and the last tuple
\* of a batch of n photos carries processed = n = total.
C14_ProcessedCountsEveryPhoto ==
    /\ \A k \in 1..Len(events) : events[k].processed = k
    /\ \A k \in 1..(Len(events) - 1) : events[k].processed <= events[k + 1].processed
    /\ pc = "done" =>
          /\ events[Len(events)].processed = Len(photo_paths)
          /\ events[Len(events)].processed = events[Len(events)].total

\* C15 (as stated): the summary shown at the end of a batch has, under the
\* label total, the number of input photos and, under the labels processed,
\* sortable and unsortable, those values of the last yielded tuple.
C15_SummaryUnderOwnLabels ==
    pc = "done" =>
        LET last == events[Len(events)]
        IN  /\ ~IsNone(summary)
            /\ Val(summary).total_photos = Len(photo_paths)
            /\ Val(summary).processed_photos = last.processed
            /\ Val(summary).sortable_photos = last.sortable
            /\ Val(summary).unsortable_photos = last.unsortable

\* the counts yielded for the photo before the current one (zero for the first)
PreviousCounts ==
    IF Len(events) <= 1 THEN [processed |-> 0, sortable |-> 0, unsortable |-> 0]
    ELSE [processed |-> events[Len(events) - 1].processed,
          sortable |-> events[Len(events) - 1].sortable,
          unsortable |-> events[Len(events) - 1].unsortable]

\* C16 (as stated): a photo whose copy or move failed is not counted as
\* sortable and not counted as processed: the tuple yielded for it carries
\* the sortable and processed counts of the tuple before it, and so does the
\* summary's sortable count when it is the last photo.
C16_FailedPlacementNotCounted ==
    (pc \in {"yield", "loop", "done"} /\ cur.op = "failed") =>
        /\ events[Len(events)].sortable = PreviousCounts.sortable
        /\ events[Len(events)].processed = PreviousCounts.processed
        /\ ~IsNone(summary) => Val(summary).sortable_photos = PreviousCounts.sortable

\* C17: the step that finds a photo without metadata ends the photo's turn at
\* once: it counts the photo unsortable once, yields its tuple, and changes no
\* file, directory, cache entry or backend count; the only step that follows
\* in that turn hands the loop to the next photo and counts nothing.
C17_MetadataFailureIsTerminal ==
    [][/\ (pc = "loop" /\ pc' # "done" /\ cur'.op = "no_exif") =>
             /\ pc' = "yield"
             /\ cur'.stages = <<"extract">>
             /\ unsortable_photos' = unsortable_photos + 1
             /\ UNCHANGED <<processed_photos, sortable_photos>>
             /\ Len(events') = Len(events) + 1
             /\ events'[Len(events')].unsortable = unsortable_photos + 1
             /\ UNCHANGED <<geo_vars, fs_vars, idx>>
       /\ (pc # "loop" /\ cur.op = "no_exif") =>
             /\ pc = "yield" /\ pc' = "loop"
             /\ idx' = idx + 1
             /\ UNCHANGED <<count_vars, events, geo_vars, fs_vars>>]_vars

\* the first photo of two had no metadata: it is counted unsortable, nothing
\* was created, and the loop stands at the second photo
C17_Witness ==
    /\ cur.op = "no_exif"
    /\ pc = "loop" /\ idx = 2 /\ Len(photo_paths) = 2
    /\ unsortable_photos = 1 /\ Len(events) = 1
    /\ dest_files = {} /\ dirs = {output_directory}
    /\ backend_calls = 0

\* C18 (as stated): the geocode cache, and the snapshot written from it, never
\* hold more entries than the configured geocoding_cache_size.
C18_CacheSizeBounded ==
    /\ Len(location_cache) <= config.geocoding_cache_size
    /\ Len(cache_file) <= config.geocoding_cache_size

\* C19 (as stated): when the process is killed during _save_cache, the file
\* holds every entry of the snapshot it held before the call: it is the old
\* snapshot or the complete new one.
C19_SnapshotCrashSafe ==
    (pc = "crashed" /\ ~IsNone(saving)) =>
        /\ cache_file = Val(saving) \/ cache_file = location_cache
        /\ \A i \in 1..Len(Val(saving)) :
              \E j \in 1..Len(cache_file) : cache_file[j] = Val(saving)[i]

\* the reverse_geocode calls so far that went to the backend
BackendLog == {k \in 1..Len(geocode_calls) : geocode_calls[k].calls = 1}

NearDuplicates(cache) ==
    \E i, j \in 1..Len(cache) :
        /\ i < j
        /\ geodesic(parse_key(cache[i].key), parse_key(cache[j].key))
              <= config.cache_distance_threshold

\* C21 (as stated): with caching enabled and a non-negative threshold, a cache
\* that started with its entries pairwise farther apart than the threshold
\* never holds two entries within the threshold of each other, whatever the
\* sequence and the interleaving of the reverse_geocode calls.
C21_NoNearDuplicateEntries ==
    (config.cache_geocoding_results /\ config.cache_distance_threshold >= 0) =>
        ~NearDuplicates(location_cache)

\* the entries of a cache, as a set
Entries(cache) == {cache[i] : i \in 1..Len(cache)}

\* C22 (as stated): no step removes an entry of the cache or changes the name
\* stored under an existing key, and a step that adds an entry is the end of
\* one reverse_geocode call whose backend call succeeded: the entry's key is
\* that call's coordinate and its name the non-empty name parsed from that
\* call's response.
C22_EntriesAppendOnly ==
    [][/\ Entries(location_cache) \subseteq Entries(location_cache')
       /\ \A e \in Entries(location_cache') \ Entries(location_cache) :
             /\ Len(geocode_calls') = Len(geocode_calls) + 1
             /\ backend_calls' = backend_calls + 1
             /\ LET g == geocode_calls'[Len(geocode_calls')]
                IN  /\ g.calls = 1
                    /\ ~g.response.raises
                    /\ e.key = format_key(g.latitude, g.longitude)
                    /\ e.name # <<>>
                    /\ Some(e.name) = _parse_location(g.response.location)]_vars

\* the run of process_photos_async has ended
RunEnded == pc \in {"done", "cancelled", "error"}

InProgress ==
    {i \in 1..Len(photo_paths) :
        /\ i < idx \/ (i = idx /\ cur.photo_path = Some(photo_paths[i]))
        /\ \A k \in 1..Len(events) : events[k].photo_path # photo_paths[i]}

\* C24: at every moment of a batch the number of photos that have started
\* processing and not yet yielded their tuple is at most max_processes.
C24_BoundedConcurrency == Cardinality(InProgress) <= config.max_processes

\* with max_processes = 1 the second photo is the one photo in progress, its
\* backend call in flight
C24_Witness ==
    /\ config.max_processes = 1
    /\ idx = 2
    /\ pc = "backend"
    /\ InProgress = {2}

\* C25: the directory made for a photo with a place name is
\* <output>/<placeName>/<formattedDate> when location and date both apply,
\* <output>/<placeName> when only the location applies, <output>/<formattedDate>
\* when only the date applies (location sorting off), and the output directory
\* itself when neither applies; the date applies when sort_by_date is set and
\* the photo has a date.
C25_PathDerivation ==
    (cur.is_sortable /\ ~IsNone(cur.output_path)) =>
        LET placeName == Val(cur.city)
            dated == config.sort_by_date /\ ~IsNone(cur.photo_date)
            located == config.sort_by_location
        IN  /\ Val(cur.output_path) \in dirs
            /\ (located /\ dated) => Val(cur.output_path) = <<Str("output"), placeName, March15Dir>>
            /\ (located /\ ~dated) => Val(cur.output_path) = <<Str("output"), placeName>>
            /\ (~located /\ dated) => Val(cur.output_path) = <<Str("output"), March15Dir>>
            /\ (~located /\ ~dated) => Val(cur.output_path) = <<Str("output")>>

\* a dated photo with a place name, location sorting off and date sorting on,
\* has its directory made
C25_Witness ==
    /\ cur.is_sortable
    /\ ~config.sort_by_location /\ config.sort_by_date
    /\ ~IsNone(cur.photo_date)
    /\ Len(Val(cur.city)) > 0
    /\ cur.output_path = Some(<<Str("output"), March15Dir>>)

\* the place name a grouping mode is to give for an address: the country field
\* alone, the region and country fields, or country, region, locality
GroupedName(address) ==
    LET locality == or_else(or_else(address.city, address.town), address.village)
        region == or_else(address.state, address.county)
        country == address.country
    IN  IF config.group_by_country THEN join(SEP, filter_none(<<country>>))
        ELSE IF config.group_by_state THEN join(SEP, filter_none(<<region, country>>))
        ELSE join(SEP, filter_none(<<country, region, locality>>))

\* the current photo's place name was derived from the backend's answer
NameFromBackend ==
    /\ cur.valid /\ cur.geocoded /\ ~IsNone(cur.city)
    /\ geocode_calls[Len(geocode_calls)].calls = 1
    /\ ~IsNone(geocode_calls[Len(geocode_calls)].response.location)

\* C26: the place name of a geocoded photo is exactly the country field of the
\* response in country-only mode, the region and country fields in state-only
\* mode, and otherwise country, region, locality (absent fields skipped);
\* country-only goes before state-only, which goes before city.
C26_GroupingMode ==
    NameFromBackend =>
        Val(cur.city) = unidecode(GroupedName(Val(geocode_calls[Len(geocode_calls)].response.location)))

(***************************************************************************)
(* SpecLive: one run of process_photos whose steps all end. The loop is    *)
(* sequential and every step is a call that returns or raises (the backend *)
(* call carries geocoding_timeout, line 382), and process_photos_async     *)
(* takes each tuple and resumes the generator (1066-1067).                 *)
(***************************************************************************)
LiveExifs == {NoExif, Exif(None, Some(March15)), Exif(Some(NewYork), Some(March15))}
LiveResponses == {Raises, Found(NewYorkAddress)}

InitLive == InitWith({DefaultConfig}, Batches(MaxPhotos), {<<>>}, {{}})

NextLive ==
    \/ Extract(LiveExifs)
    \/ GeocodeCall(LiveResponses)
    \/ GeocodeReturn(LiveResponses)
    \/ CreatePath(BOOLEAN)
    \/ Place({"ok", "fail"})
    \/ OnProgress
    \/ Complete

SpecLive == InitLive /\ [][NextLive]_vars /\ WF_vars(NextLive)

\* the place of a stage in the order extraction, geocode, directory, file
StageRank(stage) ==
    IF stage = "extract" THEN 1 ELSE IF stage = "geocode" THEN 2
    ELSE IF stage = "makedirs" THEN 3 ELSE 4

\* the stages the current photo went through are in order, none twice, with
\* at most one backend call, in flight only between its start and its return
StagesForward ==
    /\ \A i, j \in 1..Len(cur.stages) : i < j => StageRank(cur.stages[i]) < StageRank(cur.stages[j])
    /\ pc # "loop" => Len(cur.stages) >= 1 /\ cur.stages[1] = "extract"
    /\ cur.calls <= 1
    /\ Cardinality(in_flight) <= 1
    /\ in_flight # {} => pc = "backend" /\ cur.stages = <<"extract">>
    /\ backend_calls + Cardinality(in_flight) <= idx

\* the photos whose tuple was yielded
Emitted == {events[k].photo_path : k \in 1..Len(events)}

\* a step leaves every photo whose tuple was yielded alone: its source, the
\* files made from it and its record stay as they are, and it is not taken up again
EmittedUntouched ==
    \A p \in Emitted :
        /\ (p \in source_files') = (p \in source_files)
        /\ {f \in dest_files' : f.content = p} = {f \in dest_files : f.content = p}
        /\ cur.photo_path = Some(p) => cur' = cur \/ cur'.photo_path # Some(p)
        /\ cur'.photo_path = Some(p) => cur' = cur

\* C27: each photo goes forward only: extraction, then at most one resolve
\* with at most one backend call, then directory creation, then at most one
\* file operation; after its tuple is yielded nothing touches the photo; and
\* every photo of the batch eventually has its tuple yielded.
C27_LinearForwardOnly ==
    /\ []StagesForward
    /\ [][EmittedUntouched]_vars
    /\ <>(\A i \in 1..Len(photo_paths) : photo_paths[i] \in Emitted)

\* the second photo went through all four stages with one backend call and
\* has its tuple yielded, the first photo's tuple yielded before it
C27_Witness ==
    /\ idx = 2 /\ pc = "yield"
    /\ cur.stages = <<"extract", "geocode", "makedirs", "place">>
    /\ cur.calls = 1
    /\ Emitted = {photo_paths[1], photo_paths[2]}

\* C28: every photo adds one to exactly one of sortable_photos and
\* unsortable_photos, once: the k-th yielded tuple has sortable + unsortable
\* = k, neither count ever goes down from one tuple to the next, the counters
\* stand at the last tuple's values, and after a batch of n photos they add up
\* to n; a photo is counted sortable only if its coordinate passed
\* _validate_gps_coordinates and geocoding gave a non-empty place name.
C28_OneCounterPerPhoto ==
    /\ \A k \in 1..Len(events) : events[k].sortable + events[k].unsortable = k
    /\ \A k \in 1..Len(events) : \A j \in k..Len(events) :
          events[k].sortable <= events[j].sortable /\ events[k].unsortable <= events[j].unsortable
    /\ sortable_photos + unsortable_photos = Len(events)
    /\ Len(events) > 0 =>
          /\ events[Len(events)].sortable = sortable_photos
          /\ events[Len(events)].unsortable = unsortable_photos
    /\ pc = "done" => sortable_photos + unsortable_photos = Len(photo_paths)
    /\ (pc = "yield" /\ events[Len(events)].sortable > PreviousCounts.sortable) =>
          /\ events[Len(events)].sortable = PreviousCounts.sortable + 1
          /\ InBox
          /\ cur.geocoded
          /\ ~Falsy(cur.city_rgeo)

\* a batch of two photos has ended with one photo counted sortable and the
\* other unsortable
C28_Witness ==
    /\ pc = "done"
    /\ Len(photo_paths) = 2
    /\ sortable_photos = 1
    /\ unsortable_photos = 1

====
